---------------------------- MODULE Spec2Model ----------------------------
(***************************************************************************)
(* Model of encoders/pretrained_transformers/span_reprs.py: the factory    *)
(* get_span_module, the five SpanRepr variants (their constructors,        *)
(* forward and get_output_dim) and a caller that builds one module and     *)
(* calls it.                                                               *)
(*                                                                         *)
(* Numbers.  Tensor entries are integers counted in units of 5*10^9, so    *)
(* the literal 1e10 of the source is written 2.  Sums, differences,        *)
(* products by 0/1 masks and maxima are exact on these values.  A true     *)
(* division (Mean) yields a fraction [num, den] in lowest terms.  Row      *)
(* indices are 0-based as in the source; a TLA+ sequence holds row p at    *)
(* index p + 1.                                                            *)
(***************************************************************************)
EXTENDS Integers, Sequences, FiniteSets, TLC

VARIABLES
    module,         \* the object get_span_module returned, or NoModule
    output,         \* the caller's tensor [batch, seq_len, input_dim]
    start,          \* the caller's start indices, one per batch element
    end,            \* the caller's end indices, one per batch element
    last_call,      \* the most recent call: "none", "get_span_module",
                    \* "forward" or "get_output_dim"
    ret,            \* what the most recent call returned (NoValue if it raised)
    raised,         \* the exception the most recent call raised, or "None"
    frame,          \* the locals of the most recent forward call
    ctor_args,      \* the arguments get_span_module was called with, and
                    \* the seed the generator held then
    n_forward       \* the number of forward calls made so far

vars == <<module, output, start, end, last_call, ret, raised, frame,
         ctor_args, n_forward>>

----------------------------------------------------------------------------
\* Bounds of the model

MaxSeqLen == 3
MaxBatch == 1
MaxDim == 2
MaxForwardCalls == 2

\* Entries the caller's tensor is built from (units of 5*10^9).
Vals == {-3, 1}

\* Seeds of the pseudo-random initialisation of an nn.Linear.
Seeds == {0, 1}

----------------------------------------------------------------------------
\* Values

NoModule == [cls |-> "None"]
NoValue == <<"NoValue">>
NoFrame == [fn |-> "None"]
NoArgs == [method |-> "None"]

\* The sequence f, evaluated once
Tup(f) == f \o <<>>

Abs(n) == IF n < 0 THEN -n ELSE n

RECURSIVE GCD(_, _)
GCD(a, b) == IF b = 0 THEN a ELSE GCD(b, a % b)

\* n / d as torch's true division yields it: an exact fraction, lowest terms.
Frac(n, d) ==
    LET g == GCD(Abs(n), Abs(d))
        s == IF d < 0 THEN -1 ELSE 1
    IN [num |-> s * (n \div g), den |-> s * (d \div g)]

RECURSIVE SumSeq(_)
SumSeq(s) == IF s = <<>> THEN 0 ELSE Head(s) + SumSeq(Tail(s))

RECURSIVE MaxSeq(_)
MaxSeq(s) ==
    IF Len(s) = 1 THEN Head(s)
    ELSE LET m == MaxSeq(Tail(s)) IN IF Head(s) >= m THEN Head(s) ELSE m

\* Tensor shapes: x.shape[0], x.shape[1], x.shape[2]
Shape0(x) == Len(x)
Shape1(x) == Len(x[1])
Shape2(x) == Len(x[1][1])

----------------------------------------------------------------------------
\* nn.Linear

\* nn.Linear(in_features, out_features): weight [out, in] and bias [out],
\* initialised pseudo-randomly from the generator's seed.
NewLinear(in_features, out_features, seed) ==
    [weight |-> Tup([j \in 1..out_features |->
                    Tup([i \in 1..in_features |->
                        IF (i + j + seed) % 2 = 0 THEN 1 ELSE -1])]),
     bias |-> Tup([j \in 1..out_features |-> seed])]

\* Linear.forward on one vector: weight . v + bias
LinearVec(lin, v) ==
    Tup([j \in 1..Len(lin.weight) |->
        SumSeq(Tup([i \in 1..Len(v) |-> lin.weight[j][i] * v[i]])) + lin.bias[j]])

\* Linear.forward on a tensor: applied to the last axis of every token
Linear(lin, x) ==
    Tup([b \in 1..Shape0(x) |-> Tup([p \in 1..Shape1(x) |-> LinearVec(lin, x[b][p])])])

----------------------------------------------------------------------------
\* Call outcomes: a call returns a value or raises an exception

Return(v) == [raised |-> "None", value |-> v]
Raise(e) == [raised |-> e, value |-> NoValue]

----------------------------------------------------------------------------
\* Constructors.  An object is the record of the attributes __init__ set.

\* SpanRepr.__init__: proj is created only under use_proj
SpanReprInit(cls, input_dim, use_proj, proj_dim, seed) ==
    LET self == [cls |-> cls, input_dim |-> input_dim,
                 proj_dim |-> proj_dim, use_proj |-> use_proj]
    IN IF use_proj
       THEN self @@ [proj |-> NewLinear(input_dim, proj_dim, seed)]
       ELSE self

\* AttnSpanRepr.__init__: the scoring unit is sized after the local input_dim,
\* which is rebound to proj_dim under use_proj
AttnSpanReprInit(input_dim, use_proj, proj_dim, seed) ==
    LET self == SpanReprInit("AttnSpanRepr", input_dim, use_proj, proj_dim, seed)
        scored_dim == IF use_proj THEN proj_dim ELSE input_dim
    IN self @@ [attention_params |-> NewLinear(scored_dim, 1, seed + 1)]

----------------------------------------------------------------------------
\* get_output_dim

MeanGetOutputDim(self) ==
    IF self.use_proj THEN Return(self.proj_dim) ELSE Return(self.input_dim)

EndPointGetOutputDim(self) ==
    IF self.use_proj THEN Return(2 * self.proj_dim) ELSE Return(2 * self.input_dim)

DiffSumGetOutputDim(self) ==
    IF self.use_proj THEN Return(2 * self.proj_dim) ELSE Return(2 * self.input_dim)

MaxGetOutputDim(self) ==
    IF self.use_proj THEN Return(self.proj_dim) ELSE Return(self.input_dim)

\* Reads self.use_endpoints first; reading an attribute no __init__ set raises
\* AttributeError.
AttnGetOutputDim(self) ==
    IF "use_endpoints" \notin DOMAIN self THEN Raise("AttributeError")
    ELSE IF ~self.use_endpoints
         THEN IF self.use_proj THEN Return(self.proj_dim) ELSE Return(self.input_dim)
         ELSE IF self.use_proj THEN Return(3 * self.proj_dim)
              ELSE Return(3 * self.input_dim)

\* self.get_output_dim(): dispatch on the object's class
GetOutputDimOf(self) ==
    CASE self.cls = "MeanSpanRepr" -> MeanGetOutputDim(self)
      [] self.cls = "EndPointRepr" -> EndPointGetOutputDim(self)
      [] self.cls = "DiffSumSpanRepr" -> DiffSumGetOutputDim(self)
      [] self.cls = "MaxSpanRepr" -> MaxGetOutputDim(self)
      [] self.cls = "AttnSpanRepr" -> AttnGetOutputDim(self)

----------------------------------------------------------------------------
\* The factory

\* The value of method when the caller omits it
DefaultMethod == "avg"

ValidMethods == {"mean", "max", "diff_sum", "endpoint", "attn"}

\* A factory that falls back to the mean variant instead of raising
get_span_module_fallback(input_dim, method, use_proj, proj_dim, seed) ==
    CASE method = "max" ->
            Return(SpanReprInit("MaxSpanRepr", input_dim, use_proj, proj_dim, seed))
      [] method = "diff_sum" ->
            Return(SpanReprInit("DiffSumSpanRepr", input_dim, use_proj, proj_dim, seed))
      [] method = "endpoint" ->
            Return(SpanReprInit("EndPointRepr", input_dim, use_proj, proj_dim, seed))
      [] method = "attn" ->
            Return(AttnSpanReprInit(input_dim, use_proj, proj_dim, seed))
      [] OTHER ->
            Return(SpanReprInit("MeanSpanRepr", input_dim, use_proj, proj_dim, seed))

get_span_module(input_dim, method, use_proj, proj_dim, seed) ==
    CASE method = "mean" ->
            Return(SpanReprInit("MeanSpanRepr", input_dim, use_proj, proj_dim, seed))
      [] method = "max" ->
            Return(SpanReprInit("MaxSpanRepr", input_dim, use_proj, proj_dim, seed))
      [] method = "diff_sum" ->
            Return(SpanReprInit("DiffSumSpanRepr", input_dim, use_proj, proj_dim, seed))
      [] method = "endpoint" ->
            Return(SpanReprInit("EndPointRepr", input_dim, use_proj, proj_dim, seed))
      [] method = "attn" ->
            Return(AttnSpanReprInit(input_dim, use_proj, proj_dim, seed))
      [] OTHER -> Raise("NotImplementedError")

----------------------------------------------------------------------------
\* Tensor operations used by forward

\* utils.get_span_mask(start_ids, end_ids, max_len): a [batch, max_len, 1]
\* tensor of 0/1, 1 at the rows p with start_ids[b] <= p <= end_ids[b]
get_span_mask(s_ids, e_ids, max_len) ==
    Tup([b \in 1..Len(s_ids) |->
        Tup([p \in 1..max_len |->
            <<IF s_ids[b] <= p - 1 /\ p - 1 <= e_ids[b] THEN 1 ELSE 0>>])])

\* x * m for x of shape [B, L, D] and m of shape [B, L, 1] (broadcast)
BMul(x, m) ==
    Tup([b \in 1..Shape0(x) |-> Tup([p \in 1..Shape1(x) |->
        Tup([d \in 1..Shape2(x) |-> x[b][p][d] * m[b][p][1]])])])

\* torch.sum(x, dim=1)
SumDim1(x) ==
    Tup([b \in 1..Shape0(x) |-> Tup([d \in 1..Shape2(x) |->
        SumSeq(Tup([p \in 1..Shape1(x) |-> x[b][p][d]]))])])

\* torch.max(x, dim=1)[0]
MaxDim1(x) ==
    Tup([b \in 1..Shape0(x) |-> Tup([d \in 1..Shape2(x) |->
        MaxSeq(Tup([p \in 1..Shape1(x) |-> x[b][p][d]]))])])

\* x[torch.arange(batch_size), ids, :]
IndexRows(x, ids) == Tup([b \in 1..Shape0(x) |-> x[b][ids[b] + 1]])

\* torch.cat([a, c], dim=1)
Cat1(a, c) == Tup([b \in 1..Len(a) |-> a[b] \o c[b]])

\* a - c and a + c on [B, D] tensors
Sub2(a, c) == Tup([b \in 1..Len(a) |-> Tup([d \in 1..Len(a[b]) |-> a[b][d] - c[b][d]])])
Add2(a, c) == Tup([b \in 1..Len(a) |-> Tup([d \in 1..Len(a[b]) |-> a[b][d] + c[b][d]])])

\* a / n for a of shape [B, D] and n of shape [B, 1] (broadcast, true division)
Div2(a, n) ==
    Tup([b \in 1..Len(a) |-> Tup([d \in 1..Len(a[b]) |-> Frac(a[b][d], n[b][1])])])

\* nn.functional.softmax(logits, dim=1) on a [B, L, 1] tensor.  Logits are
\* multiples of 5*10^9, so exp(l - max) is 1 at the maximal rows and
\* underflows to exactly 0 at every other row: the weights are 1/k at the k
\* maximal rows and 0 elsewhere.
Softmax1(logits) ==
    Tup([b \in 1..Len(logits) |->
        LET row == Tup([p \in 1..Len(logits[b]) |-> logits[b][p][1]])
            m == MaxSeq(row)
            k == Cardinality({p \in 1..Len(row) : row[p] = m})
        IN Tup([p \in 1..Len(row) |-> <<IF row[p] = m THEN Frac(1, k) ELSE Frac(0, 1)>>])])

FracAdd(a, c) == Frac(a.num * c.den + c.num * a.den, a.den * c.den)

RECURSIVE SumFracs(_)
SumFracs(s) == IF s = <<>> THEN Frac(0, 1) ELSE FracAdd(Head(s), SumFracs(Tail(s)))

\* torch.sum(w * x, dim=1) for fractional weights w [B, L, 1] and x [B, L, D]
WeightedSumDim1(w, x) ==
    Tup([b \in 1..Shape0(x) |-> Tup([d \in 1..Shape2(x) |->
        SumFracs(Tup([p \in 1..Shape1(x) |->
            Frac(w[b][p][1].num * x[b][p][d], w[b][p][1].den)]))])])

\* The large finite constant 1e10 that stands for infinity, in units of 5*10^9
MaxPenalty == 2
AttnPenalty == 2

----------------------------------------------------------------------------
\* forward.  A call yields the value returned, the objects it was handed as
\* they are after the call (self and the caller's three tensors), and the
\* call's locals.  "encoded_input = self.proj(encoded_input)" rebinds the
\* local name and leaves the caller's tensor alone.

\* The local encoded_input after the optional projection
Projected(self, encoded_input) ==
    IF self.use_proj THEN Linear(self.proj, encoded_input) ELSE encoded_input

\* Mean handing the bounds to get_span_mask in the wrong order
MeanSpanMasks_swapped(encoded, start_ids, end_ids) ==
    get_span_mask(end_ids, start_ids, Shape1(encoded))

\* The mask Mean builds for a call
MeanSpanMasks(encoded, start_ids, end_ids) ==
    get_span_mask(start_ids, end_ids, Shape1(encoded))

\* Mean dividing by the length of the sequence
MeanForward_seq_len(self, encoded_input, start_ids, end_ids) ==
    LET encoded == Projected(self, encoded_input)
        span_lengths == Tup([b \in 1..Len(start_ids) |-> <<Shape1(encoded)>>])
        span_masks == MeanSpanMasks(encoded, start_ids, end_ids)
        span_repr == Div2(SumDim1(BMul(encoded, span_masks)), span_lengths)
    IN [ret |-> span_repr, self |-> self, encoded_input |-> encoded_input,
        start_ids |-> start_ids, end_ids |-> end_ids,
        frame |-> [fn |-> "MeanSpanRepr.forward", encoded_input |-> encoded,
                   span_masks |-> span_masks]]

MeanForward(self, encoded_input, start_ids, end_ids) ==
    LET encoded == Projected(self, encoded_input)
        span_lengths == Tup([b \in 1..Len(start_ids) |-> <<end_ids[b] - start_ids[b] + 1>>])
        span_masks == MeanSpanMasks(encoded, start_ids, end_ids)
        span_repr == Div2(SumDim1(BMul(encoded, span_masks)), span_lengths)
    IN [ret |-> span_repr, self |-> self, encoded_input |-> encoded_input,
        start_ids |-> start_ids, end_ids |-> end_ids,
        frame |-> [fn |-> "MeanSpanRepr.forward", encoded_input |-> encoded,
                   span_masks |-> span_masks]]

\* EndPoint in the order of its docstring, [h_j; h_i]
EndPointForward_swapped(self, encoded_input, start_ids, end_ids) ==
    LET encoded == Projected(self, encoded_input)
        span_repr == Cat1(IndexRows(encoded, end_ids), IndexRows(encoded, start_ids))
    IN [ret |-> span_repr, self |-> self, encoded_input |-> encoded_input,
        start_ids |-> start_ids, end_ids |-> end_ids,
        frame |-> [fn |-> "EndPointRepr.forward", encoded_input |-> encoded]]

\* EndPoint without the projection
EndPointForward_noproj(self, encoded_input, start_ids, end_ids) ==
    LET encoded == encoded_input
        span_repr == Cat1(IndexRows(encoded, start_ids), IndexRows(encoded, end_ids))
    IN [ret |-> span_repr, self |-> self, encoded_input |-> encoded_input,
        start_ids |-> start_ids, end_ids |-> end_ids,
        frame |-> [fn |-> "EndPointRepr.forward", encoded_input |-> encoded]]

EndPointForward(self, encoded_input, start_ids, end_ids) ==
    LET encoded == Projected(self, encoded_input)
        span_repr == Cat1(IndexRows(encoded, start_ids), IndexRows(encoded, end_ids))
    IN [ret |-> span_repr, self |-> self, encoded_input |-> encoded_input,
        start_ids |-> start_ids, end_ids |-> end_ids,
        frame |-> [fn |-> "EndPointRepr.forward", encoded_input |-> encoded]]

\* DiffSum subtracting the end from the start
DiffSumForward_reversed(self, encoded_input, start_ids, end_ids) ==
    LET encoded == Projected(self, encoded_input)
        span_repr == Cat1(Sub2(IndexRows(encoded, start_ids), IndexRows(encoded, end_ids)),
                          Add2(IndexRows(encoded, end_ids), IndexRows(encoded, start_ids)))
    IN [ret |-> span_repr, self |-> self, encoded_input |-> encoded_input,
        start_ids |-> start_ids, end_ids |-> end_ids,
        frame |-> [fn |-> "DiffSumSpanRepr.forward", encoded_input |-> encoded]]

DiffSumForward(self, encoded_input, start_ids, end_ids) ==
    LET encoded == Projected(self, encoded_input)
        span_repr == Cat1(Sub2(IndexRows(encoded, end_ids), IndexRows(encoded, start_ids)),
                          Add2(IndexRows(encoded, end_ids), IndexRows(encoded, start_ids)))
    IN [ret |-> span_repr, self |-> self, encoded_input |-> encoded_input,
        start_ids |-> start_ids, end_ids |-> end_ids,
        frame |-> [fn |-> "DiffSumSpanRepr.forward", encoded_input |-> encoded]]

\* The mask Max builds for a call
MaxSpanMasks(encoded, start_ids, end_ids) ==
    get_span_mask(start_ids, end_ids, Shape1(encoded))

\* encoded_input * span_masks - 1e10 * (1 - span_masks)
MaxTmpRepr(encoded, span_masks) ==
    Tup([b \in 1..Shape0(encoded) |-> Tup([p \in 1..Shape1(encoded) |->
        Tup([d \in 1..Shape2(encoded) |->
            encoded[b][p][d] * span_masks[b][p][1]
                - MaxPenalty * (1 - span_masks[b][p][1])])])])

\* Max keeping the mask of its first call on self
MaxForward_cached(self, encoded_input, start_ids, end_ids) ==
    LET encoded == Projected(self, encoded_input)
        span_masks == IF "span_masks" \in DOMAIN self THEN self.span_masks
                      ELSE MaxSpanMasks(encoded, start_ids, end_ids)
        tmp_repr == MaxTmpRepr(encoded, span_masks)
        span_repr == MaxDim1(tmp_repr)
    IN [ret |-> span_repr,
        self |-> IF "span_masks" \in DOMAIN self THEN self
                 ELSE self @@ [span_masks |-> span_masks],
        encoded_input |-> encoded_input,
        start_ids |-> start_ids, end_ids |-> end_ids,
        frame |-> [fn |-> "MaxSpanRepr.forward", encoded_input |-> encoded,
                   span_masks |-> span_masks]]

MaxForward(self, encoded_input, start_ids, end_ids) ==
    LET encoded == Projected(self, encoded_input)
        span_masks == MaxSpanMasks(encoded, start_ids, end_ids)
        tmp_repr == MaxTmpRepr(encoded, span_masks)
        span_repr == MaxDim1(tmp_repr)
    IN [ret |-> span_repr, self |-> self, encoded_input |-> encoded_input,
        start_ids |-> start_ids, end_ids |-> end_ids,
        frame |-> [fn |-> "MaxSpanRepr.forward", encoded_input |-> encoded,
                   span_masks |-> span_masks]]

\* The mask Attention builds for a call
AttnSpanMask(encoded, start_ids, end_ids) ==
    get_span_mask(start_ids, end_ids, Shape1(encoded))

\* (1 - span_mask) * (-1e10)
AttnMask(span_mask) ==
    Tup([b \in 1..Len(span_mask) |-> Tup([p \in 1..Len(span_mask[b]) |->
        <<(1 - span_mask[b][p][1]) * (-AttnPenalty)>>])])

\* self.attention_params(encoded_input) + attn_mask
AttnLogits(self, encoded, attn_mask) ==
    LET scores == Linear(self.attention_params, encoded)
    IN Tup([b \in 1..Len(scores) |-> Tup([p \in 1..Len(scores[b]) |->
            <<scores[b][p][1] + attn_mask[b][p][1]>>])])

AttnForward(self, encoded_input, start_ids, end_ids) ==
    LET encoded == Projected(self, encoded_input)
        span_mask == AttnSpanMask(encoded, start_ids, end_ids)
        attn_mask == AttnMask(span_mask)
        attn_logits == AttnLogits(self, encoded, attn_mask)
        attention_wts == Softmax1(attn_logits)
        attention_term == WeightedSumDim1(attention_wts, encoded)
    IN [ret |-> attention_term, self |-> self, encoded_input |-> encoded_input,
        start_ids |-> start_ids, end_ids |-> end_ids,
        frame |-> [fn |-> "AttnSpanRepr.forward", encoded_input |-> encoded,
                   span_masks |-> span_mask, attn_logits |-> attn_logits,
                   attention_wts |-> attention_wts]]

\* self(encoded_input, start_ids, end_ids): dispatch on the object's class
ForwardOf(self, encoded_input, start_ids, end_ids) ==
    CASE self.cls = "MeanSpanRepr" -> MeanForward(self, encoded_input, start_ids, end_ids)
      [] self.cls = "EndPointRepr" -> EndPointForward(self, encoded_input, start_ids, end_ids)
      [] self.cls = "DiffSumSpanRepr" -> DiffSumForward(self, encoded_input, start_ids, end_ids)
      [] self.cls = "MaxSpanRepr" -> MaxForward(self, encoded_input, start_ids, end_ids)
      [] self.cls = "AttnSpanRepr" -> AttnForward(self, encoded_input, start_ids, end_ids)

----------------------------------------------------------------------------
\* The caller

Sign(d) == IF d % 2 = 1 THEN 1 ELSE -1

\* The tensors the caller may hold: batch element b reads the token values
\* tok rotated by b - 1 rows, channel d carries them with the sign of d.
TensorOf(tok, batch_size, dim) ==
    Tup([b \in 1..batch_size |-> Tup([p \in 1..Len(tok) |->
        Tup([d \in 1..dim |-> Sign(d) * tok[((p + b - 2) % Len(tok)) + 1]])])])

Tensors ==
    {TensorOf(tok, batch_size, dim) :
        tok \in [1..MaxSeqLen -> Vals], batch_size \in 1..MaxBatch, dim \in 1..MaxDim}

\* The span boundaries the caller may pass: element 1 holds any valid span
\* 0 <= start <= end < seq_len, and each further element the mirror image
\* of the one before it.
RECURSIVE SpansFrom(_, _, _)
SpansFrom(se, batch_size, seq_len) ==
    IF Len(se) = batch_size THEN se
    ELSE LET prev == se[Len(se)]
         IN SpansFrom(Append(se, <<seq_len - 1 - prev[2], seq_len - 1 - prev[1]>>),
                      batch_size, seq_len)

ValidSpans(batch_size, seq_len) ==
    {SpansFrom(<<se1>>, batch_size, seq_len) :
        se1 \in {p \in (0..(seq_len - 1)) \X (0..(seq_len - 1)) : p[1] <= p[2]}}

Methods == ValidMethods \cup {DefaultMethod, "bogus"}

Init ==
    /\ module = NoModule
    /\ output \in Tensors
    /\ start = Tup([b \in 1..Shape0(output) |-> 0])
    /\ end = Tup([b \in 1..Shape0(output) |-> 0])
    /\ last_call = "none"
    /\ ret = NoValue
    /\ raised = "None"
    /\ frame = NoFrame
    /\ ctor_args = NoArgs
    /\ n_forward = 0

\* span_model = get_span_module(input_dim, method=..., use_proj=..., proj_dim=...)
\* for the width of the caller's tensor
CallGetSpanModule ==
    /\ module = NoModule
    /\ last_call = "none"
    /\ \E method \in Methods, use_proj \in BOOLEAN, proj_dim \in 1..MaxDim, seed \in Seeds :
        \E r \in {get_span_module(Shape2(output), method, use_proj, proj_dim, seed)} :
           /\ module' = IF r.raised = "None" THEN r.value ELSE NoModule
           /\ ret' = r.value
           /\ raised' = r.raised
           /\ ctor_args' = [input_dim |-> Shape2(output), method |-> method,
                            use_proj |-> use_proj, proj_dim |-> proj_dim,
                            seed |-> seed]
    /\ last_call' = "get_span_module"
    /\ frame' = NoFrame
    /\ UNCHANGED <<output, start, end, n_forward>>

\* The caller picks the spans of its next call and drops the last result
SetSpans ==
    /\ module # NoModule
    /\ last_call # "none"
    /\ \E se \in ValidSpans(Shape0(output), Shape1(output)) :
        /\ start' = Tup([b \in 1..Shape0(output) |-> se[b][1]])
        /\ end' = Tup([b \in 1..Shape0(output) |-> se[b][2]])
    /\ last_call' = "none"
    /\ ret' = NoValue
    /\ raised' = "None"
    /\ frame' = NoFrame
    /\ UNCHANGED <<module, output, ctor_args, n_forward>>

\* span_output = span_model(output, start, end)
CallForward ==
    /\ module # NoModule
    /\ n_forward < MaxForwardCalls
    /\ \E r \in {ForwardOf(module, output, start, end)} :
          /\ ret' = r.ret
          /\ module' = r.self
          /\ output' = r.encoded_input
          /\ start' = r.start_ids
          /\ end' = r.end_ids
          /\ frame' = r.frame
    /\ last_call' = "forward"
    /\ raised' = "None"
    /\ n_forward' = n_forward + 1
    /\ UNCHANGED ctor_args

\* span_model.get_output_dim()
CallGetOutputDim ==
    /\ module # NoModule
    /\ \E r \in {GetOutputDimOf(module)} :
          /\ ret' = r.value
          /\ raised' = r.raised
    /\ last_call' = "get_output_dim"
    /\ frame' = NoFrame
    /\ UNCHANGED <<module, output, start, end, ctor_args, n_forward>>

Next == CallGetSpanModule \/ SetSpans \/ CallForward \/ CallGetOutputDim

Spec == Init /\ [][Next]_vars

----------------------------------------------------------------------------
\* The factory's error and the output dimensions

\* C1: a call of get_span_module whose method is none of "mean", "max",
\* "diff_sum", "endpoint", "attn" (the default "avg" included) raises
\* NotImplementedError: it returns nothing, no object exists afterwards and
\* no forward has run.
C1_UnknownMethodRaises ==
    (ctor_args # NoArgs /\ ctor_args.method \notin ValidMethods) =>
        /\ module = NoModule
        /\ last_call = "get_span_module"
        /\ raised = "NotImplementedError"
        /\ ret = NoValue
        /\ frame = NoFrame
        /\ n_forward = 0

\* The caller omitted method, and the factory raised
C1_Witness ==
    /\ ctor_args # NoArgs
    /\ ctor_args.method = DefaultMethod
    /\ raised = "NotImplementedError"

\* The output dimension the table gives for a tag
TableDim(method, use_proj, input_dim, proj_dim) ==
    LET D == IF use_proj THEN proj_dim ELSE input_dim
    IN IF method \in {"endpoint", "diff_sum"} THEN 2 * D ELSE D

\* C2: for each of the five tags and both values of use_proj, get_output_dim()
\* of the object the factory returned returns the table's value: D for mean,
\* max and attn, 2 * D for endpoint and diff_sum, D being proj_dim under
\* use_proj and input_dim otherwise.
C2_OutputDimMatchesTable ==
    (last_call = "get_output_dim" /\ ctor_args.method \in ValidMethods) =>
        /\ raised = "None"
        /\ ret = TableDim(ctor_args.method, ctor_args.use_proj,
                          ctor_args.input_dim, ctor_args.proj_dim)

----------------------------------------------------------------------------
\* What forward computes

\* The caller's tensor as the variants pool it: projected under use_proj
Encoded == IF module.use_proj THEN Linear(module.proj, output) ELSE output

\* The rows of batch element b inside its span
SpanRows(b) == start[b]..end[b]

Batch == 1..Shape0(output)

\* C3: the mask Mean, Max and Attention build has one row per position of
\* the sequence, 1 at the positions p with start[b] <= p <= end[b] and 0 at
\* the others, so end[b] - start[b] + 1 ones per batch element.
C3_SpanMask ==
    (last_call = "forward" /\ "span_masks" \in DOMAIN frame) =>
        \A b \in Batch :
            /\ Len(frame.span_masks[b]) = Shape1(output)
            /\ \A p \in 0..(Shape1(output) - 1) :
                  frame.span_masks[b][p + 1] =
                      <<IF start[b] <= p /\ p <= end[b] THEN 1 ELSE 0>>
            /\ Cardinality({p \in 0..(Shape1(output) - 1) :
                               frame.span_masks[b][p + 1][1] = 1})
                   = end[b] - start[b] + 1

\* Mean built the mask of a span that neither starts at row 0 nor covers
\* the sequence
C3_Witness ==
    /\ last_call = "forward"
    /\ module.cls = "MeanSpanRepr"
    /\ start[1] = 1
    /\ end[1] = 1
    /\ frame.span_masks[1] = <<<<0>>, <<1>>, <<0>>>>

\* C4: Max returns, for every batch element and channel, the maximum of the
\* (optionally projected) entries at the rows of the span, whatever their
\* values and whatever the values outside the span.
C4_MaxOverSpan ==
    (last_call = "forward" /\ module.cls = "MaxSpanRepr") =>
        \A b \in Batch : \A d \in 1..Shape2(Encoded) :
            /\ \E p \in SpanRows(b) : ret[b][d] = Encoded[b][p + 1][d]
            /\ \A p \in SpanRows(b) : ret[b][d] >= Encoded[b][p + 1][d]

\* C5: Mean returns, for every batch element and channel, the sum of the
\* (optionally projected) entries at the rows of the span divided by
\* end[b] - start[b] + 1; for a span of one row that is the entry itself.
C5_MeanOverSpan ==
    (last_call = "forward" /\ module.cls = "MeanSpanRepr") =>
        \A b \in Batch : \A d \in 1..Shape2(Encoded) :
            LET total == SumSeq([i \in 1..(end[b] - start[b] + 1) |->
                                    Encoded[b][start[b] + i][d]])
            IN /\ ret[b][d].den > 0
               /\ ret[b][d].num * (end[b] - start[b] + 1) = total * ret[b][d].den
               /\ start[b] = end[b] =>
                     ret[b][d] = [num |-> Encoded[b][start[b] + 1][d], den |-> 1]

\* Mean pooled a span of three rows whose sum is not a multiple of 3
C5_Witness ==
    /\ last_call = "forward"
    /\ module.cls = "MeanSpanRepr"
    /\ end[1] = start[1] + 2
    /\ \E d \in 1..Len(ret[1]) : ret[1][d].den = 3

C7_DiffSumConcat ==
    (last_call = "forward" /\ module.cls = "DiffSumSpanRepr") =>
        \A b \in Batch :
            LET W == Shape2(Encoded)
                first == Encoded[b][start[b] + 1]
                last == Encoded[b][end[b] + 1]
            IN /\ Len(ret[b]) = 2 * W
               /\ \A d \in 1..W :
                     /\ ret[b][d] = last[d] - first[d]
                     /\ ret[b][W + d] = last[d] + first[d]
                     /\ start[b] = end[b] =>
                           (ret[b][d] = 0 /\ ret[b][W + d] = 2 * first[d])

\* DiffSum pooled a span whose end rows differ
C7_Witness ==
    /\ last_call = "forward"
    /\ module.cls = "DiffSumSpanRepr"
    /\ start[1] < end[1]
    /\ ret[1][1] # 0

\* C8: in Attention the weights of every batch element sum to 1 over the
\* sequence, and the weight of every position outside the span is below
\* 1e-6, whatever the scores.
C8_AttnWeights ==
    (last_call = "forward" /\ module.cls = "AttnSpanRepr") =>
        \A b \in Batch :
            /\ SumFracs([p \in 1..Shape1(output) |-> frame.attention_wts[b][p][1]])
                   = [num |-> 1, den |-> 1]
            /\ \A p \in 0..(Shape1(output) - 1) :
                  p \notin SpanRows(b) =>
                      frame.attention_wts[b][p + 1][1].num * 1000000
                          < frame.attention_wts[b][p + 1][1].den

----------------------------------------------------------------------------
\* The projection and the absence of state

\* The width of the vectors a variant pools
PooledDim == IF module.use_proj THEN module.proj_dim ELSE module.input_dim

\* C9: every forward pools the projected tensor under use_proj and the
\* caller's tensor itself otherwise, so it returns vectors of width
\* proj_dim (Mean, Max, Attention) or 2 * proj_dim (EndPoint, DiffSum) under
\* use_proj, and input_dim or 2 * input_dim otherwise; the scoring unit of
\* Attention takes vectors of the width it is given.
C9_ProjectionAndWidth ==
    /\ last_call = "forward" =>
          /\ frame.encoded_input = Encoded
          /\ ~module.use_proj => frame.encoded_input = output
          /\ Shape2(frame.encoded_input) = PooledDim
          /\ \A b \in Batch :
                Len(ret[b]) =
                    IF module.cls \in {"EndPointRepr", "DiffSumSpanRepr"}
                    THEN 2 * PooledDim ELSE PooledDim
    /\ module.cls = "AttnSpanRepr" =>
          /\ Len(module.attention_params.weight) = 1
          /\ Len(module.attention_params.weight[1]) = PooledDim

\* A forward under use_proj with proj_dim other than input_dim
C9_Witness ==
    /\ last_call = "forward"
    /\ module.use_proj
    /\ module.proj_dim # module.input_dim
    /\ Len(ret[1]) = 2 * module.proj_dim

\* The object get_span_module builds from the same arguments and the same
\* generator state: a fresh instance with the same weights
FreshModule ==
    get_span_module(ctor_args.input_dim, ctor_args.method, ctor_args.use_proj,
                    ctor_args.proj_dim, ctor_args.seed).value

\* C10: a forward call leaves the instance and the caller's three tensors as
\* they were, and returns what a fresh instance with the same weights
\* returns for the same arguments, however many calls came before.
C10_ForwardStateless ==
    [][last_call' = "forward" =>
          /\ module' = module
          /\ output' = output
          /\ start' = start
          /\ end' = end
          /\ ret' = ForwardOf(FreshModule, output, start, end).ret]_vars

\* A second forward call, on spans other than the first call's
C10_Witness ==
    /\ last_call = "forward"
    /\ n_forward = 2
    /\ start[1] = 1
    /\ module.cls = "MaxSpanRepr"

==============================================================================
